---- MODULE Spec2Model ----
(***************************************************************************)
(* Model of the Cloudflare worker gateway: the Router (src/index.ts), the  *)
(* API-key gate (src/auth.ts), the email handler the Router imports        *)
(* (src/email.ts), the notifications handler (src/notifications.ts) and   *)
(* the email service worker with origin, content-type and field           *)
(* validation, which is deployed on its own.  Strings that the code       *)
(* inspects character by character (API keys, the Authorization header    *)
(* and email addresses) are sequences of UTF-16 code units.               *)
(***************************************************************************)
EXTENDS Integers, Sequences, FiniteSets, TLC

VARIABLES env, entry, request, pc, auth, cmp, handler, body, calls, outcome,
          response, peer

vars ==
    <<env, entry, request, pc, auth, cmp, handler, body, calls, outcome,
      response, peer>>

\* ------------------------------------------------------------------ bounds
\* Longest API key / credential token enumerated for the full pipeline.
MaxKeyLen == 1

\* Longest API key / credential token enumerated for the AuthGate alone.
MaxTokenLen == 2

\* Longest `to` array of an email request.
MaxRecipients == 2

\* ------------------------------------------------------ values and inputs
\* JavaScript null / undefined: no string has a negative code unit.
Null == <<-1>>

\* Code units the enumerated keys are made of: 'a' and 'b'.
Alphabet == {97, 98}

\* "Bearer " as code units.
BearerPrefix == <<66, 101, 97, 114, 101, 114, 32>>

\* All strings over Alphabet of length 0..n.
Tokens(n) == UNION {[1..k -> Alphabet] : k \in 0..n}

\* Values request.headers.get('Authorization') can return: null, a raw
\* value, or "Bearer <token>" (a header value has no trailing blank, so the
\* bare "Bearer " does not occur).
AuthorizationValues(n) ==
    {Null} \cup Tokens(n) \cup {BearerPrefix \o t : t \in Tokens(n) \ {<<>>}}

\* Values of the x-api-key header and of the api_key query parameter.
CarrierValues(n) == {Null} \cup Tokens(n)

Methods == {"GET", "POST", "OPTIONS", "PUT"}

HealthPaths == {"/health", "/"}
EmailPaths == {"/email", "/email/"}
NotificationPaths == {"/notifications", "/notifications/"}
Paths == HealthPaths \cup EmailPaths \cup NotificationPaths \cup {"/unknown"}

\* An absent Origin header.
NoOrigin == "(none)"

\* Values of request.headers.get('Origin').
Origins == {NoOrigin, "", "https://example.com", "https://other.com"}

\* A Content-Type value is the sequence of the pieces the code can tell
\* apart; the absent header has none.
NoContentType == <<>>

JsonContentType == <<"application/json">>

ContentTypes ==
    {NoContentType, JsonContentType,
     <<"application/json", "; charset=utf-8">>, <<"text/plain">>}

\* Requests to the email service worker, which reads the method and the
\* Origin and Content-Type headers only.
ServiceRequests ==
    [method : Methods, path : {"/"}, Authorization : {Null},
     xApiKey : {Null}, api_key : {Null},
     Origin : Origins, ContentType : ContentTypes]

\* Requests to the Router and to the notifications worker, which read the
\* method, the path and the three credential carriers only.
Requests(methods, paths, n, types) ==
    [method : methods, path : paths, Authorization : AuthorizationValues(n),
     xApiKey : CarrierValues(n), api_key : CarrierValues(n),
     Origin : {NoOrigin}, ContentType : types]

\* A configuration value is either not set or set.
Setting == {"unset", "set"}

\* An ALLOWED_ORIGINS value is the sequence of the pieces between its commas
\* (a string with k commas has k + 1 pieces, "" has the one piece ""); the
\* variable that is not set has none.
Unset == <<>>

AllowLists ==
    {Unset, <<"*">>, <<"">>, <<"https://example.com">>,
     <<"https://example.com", " https://other.com">>,
     <<"https://example.com", "*">>}

\* Configurations with keys up to length n.  The settings of a worker vary
\* when that worker can be reached (email, notifications) and are set
\* otherwise.
Envs(email, notifications, n) ==
    [API_KEY : {Null} \cup Tokens(n),
     AZURE_COMMUNICATION_CONNECTION_STRING :
         IF email THEN Setting ELSE {"set"},
     FROM_EMAIL : IF email THEN Setting ELSE {"set"},
     AZURE_NOTIFICATION_HUB_CONNECTION_STRING :
         IF notifications THEN Setting ELSE {"set"},
     AZURE_NOTIFICATION_HUB_NAME :
         IF notifications THEN Setting ELSE {"set"},
     ALLOWED_ORIGINS : {Unset},
     AZURE_COMMUNICATION_ENDPOINT : {"set"},
     AZURE_CLIENT_ID : {"set"},
     AZURE_CLIENT_SECRET : {"set"},
     AZURE_TENANT_ID : {"set"}]

\* Configurations of the email service worker.  The endpoint and the three
\* client credentials are read only when the connection string is not set.
ServiceEnvs ==
    {e \in [API_KEY : {Null},
            AZURE_COMMUNICATION_CONNECTION_STRING : Setting,
            FROM_EMAIL : {"set"},
            AZURE_NOTIFICATION_HUB_CONNECTION_STRING : {"set"},
            AZURE_NOTIFICATION_HUB_NAME : {"set"},
            ALLOWED_ORIGINS : AllowLists,
            AZURE_COMMUNICATION_ENDPOINT : Setting,
            AZURE_CLIENT_ID : Setting,
            AZURE_CLIENT_SECRET : Setting,
            AZURE_TENANT_ID : Setting] :
        e.AZURE_COMMUNICATION_CONNECTION_STRING = "set"
            => /\ e.AZURE_COMMUNICATION_ENDPOINT = "set"
               /\ e.AZURE_CLIENT_ID = "set"
               /\ e.AZURE_CLIENT_SECRET = "set"
               /\ e.AZURE_TENANT_ID = "set"}

\* The worker a request is delivered to: the Router, the notifications
\* worker deployed on its own, or the email service worker.
Entries == {"router", "notifications", "emailService"}

\* ---------------------------------------------------------- JS primitives
\* Truthiness of a string-or-null value.
Truthy(v) == v # Null /\ v # <<>>

\* a || b
JsOr(a, b) == IF Truthy(a) THEN a ELSE b

\* s.startsWith(p)
startsWith(s, p) == Len(s) >= Len(p) /\ SubSeq(s, 1, Len(p)) = p

\* s.substring(n)
substring(s, n) == IF n >= Len(s) THEN <<>> ELSE SubSeq(s, n + 1, Len(s))

RECURSIVE BitXor(_, _)
\* x ^ y on non-negative integers
BitXor(x, y) ==
    IF x = 0 /\ y = 0 THEN 0
    ELSE (((x % 2) + (y % 2)) % 2) + 2 * BitXor(x \div 2, y \div 2)

RECURSIVE BitOr(_, _)
\* x | y on non-negative integers
BitOr(x, y) ==
    IF x = 0 /\ y = 0 THEN 0
    ELSE (IF (x % 2) = 1 \/ (y % 2) = 1 THEN 1 ELSE 0)
         + 2 * BitOr(x \div 2, y \div 2)

\* --------------------------------------------------------------- Responses
NoBody == [kind |-> "null", text |-> "", fields |-> {}]
TextBody(t) == [kind |-> "text", text |-> t, fields |-> {}]
JsonBody(f) == [kind |-> "json", text |-> "", fields |-> f]

\* new Response(body, {status, headers})
Response(status, headers, b) ==
    [status |-> status, headers |-> headers, body |-> b]

NoResponse == Response(0, {}, NoBody)

JsonHeaders == {<<"Content-Type", "application/json">>}

TextHeaders == {<<"Content-Type", "text/plain;charset=UTF-8">>}

\* ---------------------------------------------------------------- AuthGate
\* Record of one run of timingSafeEqual: its arguments, what it returned
\* and how many times the loop body ran.
NoCmp == [a |-> <<>>, b |-> <<>>, ret |-> FALSE, iterations |-> -1]

RECURSIVE timingSafeEqualLoopAssign(_, _, _, _)
\* The loop with `result =` in place of `result |=`.
timingSafeEqualLoopAssign(a, b, i, result) ==
    IF i < Len(a)
    THEN timingSafeEqualLoopAssign(a, b, i + 1, BitXor(a[i + 1], b[i + 1]))
    ELSE [ret |-> (result = 0), iterations |-> i]

RECURSIVE timingSafeEqualLoopEarlyExit(_, _, _, _)
\* The loop returning false at the first differing code unit.
timingSafeEqualLoopEarlyExit(a, b, i, result) ==
    IF i < Len(a)
    THEN IF a[i + 1] # b[i + 1]
         THEN [ret |-> FALSE, iterations |-> i + 1]
         ELSE timingSafeEqualLoopEarlyExit(a, b, i + 1, result)
    ELSE [ret |-> (result = 0), iterations |-> i]

RECURSIVE timingSafeEqualLoop(_, _, _, _)
\* for (let i = 0; i < a.length; i++) result |= a.charCodeAt(i) ^ b.charCodeAt(i);
\* return result === 0;
timingSafeEqualLoop(a, b, i, result) ==
    IF i < Len(a)
    THEN timingSafeEqualLoop(a, b, i + 1,
                             BitOr(result, BitXor(a[i + 1], b[i + 1])))
    ELSE [ret |-> (result = 0), iterations |-> i]

timingSafeEqual(a, b) ==
    IF Len(a) # Len(b)
    THEN [ret |-> FALSE, iterations |-> 0]
    ELSE timingSafeEqualLoop(a, b, 0, 0)

\* authHeader?.startsWith('Bearer ') ? authHeader.substring(7) : authHeader
apiKeyFromHeader(req) ==
    IF req.Authorization # Null /\ startsWith(req.Authorization, BearerPrefix)
    THEN substring(req.Authorization, 7)
    ELSE req.Authorization

\* The carriers consulted in the opposite order.
providedApiKeyReversed(req) ==
    JsOr(JsOr(req.api_key, req.xApiKey), apiKeyFromHeader(req))

\* apiKeyFromHeader || apiKeyFromCustomHeader || apiKeyFromQuery
providedApiKey(req) ==
    JsOr(JsOr(apiKeyFromHeader(req), req.xApiKey), req.api_key)

ServerMisconfigured ==
    Response(500, JsonHeaders,
             JsonBody({<<"error", "Server configuration error">>,
                       <<"message", "API authentication not configured">>}))

\* The 401 without its challenge header.
MissingCredentialNoChallenge ==
    Response(401, JsonHeaders,
             JsonBody({<<"error", "Authentication required">>,
                       <<"message", "API key must be provided via Authorization header, x-api-key header, or api_key query parameter">>}))

MissingCredential ==
    Response(401, JsonHeaders \cup {<<"WWW-Authenticate", "Bearer">>},
             JsonBody({<<"error", "Authentication required">>,
                       <<"message", "API key must be provided via Authorization header, x-api-key header, or api_key query parameter">>}))

InvalidCredential ==
    Response(403, JsonHeaders,
             JsonBody({<<"error", "Invalid API key">>,
                       <<"message", "The provided API key is not valid">>}))

\* The bypass without the root path.
skipsAuthHealthOnly(req) == req.path = "/health"

\* url.pathname === '/health' || url.pathname === '/'
skipsAuth(req) == req.path = "/health" \/ req.path = "/"

\* validateApiKey accepting any non-empty credential.
validateApiKeyNoCompare(req, e) ==
    IF skipsAuth(req)
    THEN [response |-> NoResponse, cmp |-> NoCmp]
    ELSE IF ~Truthy(e.API_KEY)
    THEN [response |-> ServerMisconfigured, cmp |-> NoCmp]
    ELSE IF ~Truthy(providedApiKey(req))
    THEN [response |-> MissingCredential, cmp |-> NoCmp]
    ELSE [response |-> NoResponse, cmp |-> NoCmp]

\* validateApiKey testing the credential before the configuration.
validateApiKeyCredentialFirst(req, e) ==
    IF skipsAuth(req)
    THEN [response |-> NoResponse, cmp |-> NoCmp]
    ELSE IF ~Truthy(providedApiKey(req))
    THEN [response |-> MissingCredential, cmp |-> NoCmp]
    ELSE IF ~Truthy(e.API_KEY)
    THEN [response |-> ServerMisconfigured, cmp |-> NoCmp]
    ELSE LET c == timingSafeEqual(providedApiKey(req), e.API_KEY)
             run == [a |-> providedApiKey(req), b |-> e.API_KEY,
                     ret |-> c.ret, iterations |-> c.iterations]
         IN  IF ~c.ret
             THEN [response |-> InvalidCredential, cmp |-> run]
             ELSE [response |-> NoResponse, cmp |-> run]

\* validateApiKey: response is the error Response, or NoResponse for the
\* null it returns on success; cmp is the timingSafeEqual run, if any.
validateApiKey(req, e) ==
    IF skipsAuth(req)
    THEN [response |-> NoResponse, cmp |-> NoCmp]
    ELSE IF ~Truthy(e.API_KEY)
    THEN [response |-> ServerMisconfigured, cmp |-> NoCmp]
    ELSE IF ~Truthy(providedApiKey(req))
    THEN [response |-> MissingCredential, cmp |-> NoCmp]
    ELSE LET c == timingSafeEqual(providedApiKey(req), e.API_KEY)
             run == [a |-> providedApiKey(req), b |-> e.API_KEY,
                     ret |-> c.ret, iterations |-> c.iterations]
         IN  IF ~c.ret
             THEN [response |-> InvalidCredential, cmp |-> run]
             ELSE [response |-> NoResponse, cmp |-> run]

\* ------------------------------------------------- handlers, up to an await
MethodNotAllowed == Response(405, TextHeaders, TextBody("Method not allowed"))

\* The email handler without its method check.
EmailEnterAnyMethod(req) == [pc |-> "emailJson", response |-> NoResponse]

\* src/email.ts fetch, from its entry to `await request.json()`.
EmailEnter(req) ==
    IF req.method # "POST"
    THEN [pc |-> "done", response |-> MethodNotAllowed]
    ELSE [pc |-> "emailJson", response |-> NoResponse]

\* notifications fetch, from its entry to `await request.json()`.
NotificationsEnter(req, e) ==
    LET v == validateApiKey(req, e)
    IN  IF v.response # NoResponse
        THEN [pc |-> "done", response |-> v.response,
              auth |-> v.response.status, cmp |-> v.cmp]
        ELSE IF req.method # "POST"
        THEN [pc |-> "done", response |-> MethodNotAllowed,
              auth |-> 0, cmp |-> v.cmp]
        ELSE [pc |-> "notifyJson", response |-> NoResponse,
              auth |-> 0, cmp |-> v.cmp]

HealthResponse ==
    Response(200, JsonHeaders,
             JsonBody({<<"status", "healthy">>,
                       <<"endpoints.email", "/email">>,
                       <<"endpoints.notifications", "/notifications">>,
                       <<"endpoints.health", "/health">>,
                       <<"authentication", "API key required for protected endpoints">>,
                       <<"timestamp", "now">>}))

\* The 404 without the echoed path.
NotFoundNoPath(path) ==
    Response(404, JsonHeaders,
             JsonBody({<<"error", "Not Found">>,
                       <<"message", "Available endpoints: /email, /notifications, /health">>}))

NotFound(path) ==
    Response(404, JsonHeaders,
             JsonBody({<<"error", "Not Found">>,
                       <<"message", "Available endpoints: /email, /notifications, /health">>,
                       <<"path", path>>}))

\* ------------------------------------------------------------------- state
Unread == [read |-> FALSE]

\* peer holds a second request that the same worker instance is handling
\* while the scheduled one (request, pc, ..., response) runs; there is none
\* when a request is handled alone.
NoPeer ==
    [request |-> Null, pc |-> "absent", auth |-> <<>>, cmp |-> NoCmp,
     handler |-> "none", body |-> Unread, calls |-> <<>>,
     outcome |-> "none", response |-> NoResponse]

\* The three credential carriers are enumerated through the Router; the
\* stand-alone notifications worker, which runs the same validateApiKey, is
\* enumerated with the Authorization header only.
Init ==
    /\ entry \in Entries
    /\ request \in
           IF entry = "emailService" THEN ServiceRequests
           ELSE IF entry = "notifications"
           THEN {r \in Requests(Methods, Paths, MaxKeyLen, {NoContentType}) :
                    r.xApiKey = Null /\ r.api_key = Null}
           ELSE Requests(Methods, Paths, MaxKeyLen, {NoContentType})
                    \cup Requests({"POST"}, {"/email"}, MaxKeyLen,
                                  {JsonContentType})
    /\ env \in
           IF entry = "emailService" THEN ServiceEnvs
           ELSE Envs(entry = "router" /\ request.path \in EmailPaths,
                     entry = "notifications"
                         \/ request.path \in NotificationPaths,
                     MaxKeyLen)
    /\ pc = "received"
    /\ auth = <<>>
    /\ cmp = NoCmp
    /\ handler = "none"
    /\ body = Unread
    /\ calls = <<>>
    /\ outcome = "none"
    /\ response = NoResponse
    /\ peer = NoPeer

\* The Router's fetch, run until it returns or the handler it delegates to
\* awaits the request body.  auth logs the result of every validateApiKey
\* call: 0 for null (ok), else the status of the error response.  handler
\* is the endpoint handler whose fetch has been called.
RouterFetch ==
    /\ pc = "received"
    /\ entry = "router"
    /\ LET v == validateApiKey(request, env)
       IN  IF v.response # NoResponse
           THEN /\ response' = v.response
                /\ pc' = "done"
                /\ auth' = <<v.response.status>>
                /\ cmp' = v.cmp
                /\ handler' = "none"
           ELSE IF request.path = "/email" \/ request.path = "/email/"
           THEN LET h == EmailEnter(request)
                IN  /\ response' = h.response
                    /\ pc' = h.pc
                    /\ auth' = <<0>>
                    /\ cmp' = v.cmp
                    /\ handler' = "email"
           ELSE IF request.path = "/notifications"
                   \/ request.path = "/notifications/"
           THEN LET h == NotificationsEnter(request, env)
                IN  /\ response' = h.response
                    /\ pc' = h.pc
                    /\ auth' = <<0, h.auth>>
                    /\ cmp' = h.cmp
                    /\ handler' = "notifications"
           ELSE IF request.path = "/health" \/ request.path = "/"
           THEN /\ response' = HealthResponse
                /\ pc' = "done"
                /\ auth' = <<0>>
                /\ cmp' = v.cmp
                /\ handler' = "none"
           ELSE /\ response' = NotFound(request.path)
                /\ pc' = "done"
                /\ auth' = <<0>>
                /\ cmp' = v.cmp
                /\ handler' = "none"
    /\ UNCHANGED <<env, entry, request, body, calls, outcome, peer>>

\* The notifications worker deployed on its own.
NotificationsFetch ==
    /\ pc = "received"
    /\ entry = "notifications"
    /\ LET h == NotificationsEnter(request, env)
       IN  /\ response' = h.response
           /\ pc' = h.pc
           /\ auth' = <<h.auth>>
           /\ cmp' = h.cmp
           /\ handler' = "notifications"
    /\ UNCHANGED <<env, entry, request, body, calls, outcome, peer>>

\* --------------------------------------------------------- request bodies
\* What `await request.json()` yields in src/email.ts: a body the handler
\* cannot use (json() rejects, or yields null, whose field access throws),
\* or an object of which the handler only tests the fields for truthiness
\* (textContent is a field the handler never reads).
EmailBodies ==
    {[read |-> TRUE, parses |-> FALSE, to |-> FALSE, subject |-> FALSE,
      body |-> FALSE, isHtml |-> FALSE, textContent |-> FALSE]}
    \cup [read : {TRUE}, parses : {TRUE}, to : BOOLEAN, subject : BOOLEAN,
          body : BOOLEAN, isHtml : BOOLEAN, textContent : BOOLEAN]

\* The six values of NotificationRequest.platform.
Platforms == {"apns", "fcm", "wns", "mpns", "adm", "baidu"}

\* platform "" is an absent platform, "other" a value outside the enum; the
\* remaining fields are present (truthy) or not.
NotificationBodies ==
    {[read |-> TRUE, parses |-> FALSE, platform |-> "", message |-> FALSE,
      deviceHandle |-> FALSE, tags |-> FALSE, templateName |-> FALSE,
      templateProperties |-> FALSE]}
    \cup [read : {TRUE}, parses : {TRUE},
          platform : Platforms \cup {"", "other"}, message : BOOLEAN,
          deviceHandle : BOOLEAN, tags : BOOLEAN, templateName : BOOLEAN,
          templateProperties : BOOLEAN]

\* ------------------------------------------------- src/email.ts, continued
EmailFailed ==
    Response(500, JsonHeaders,
             JsonBody({<<"error", "Failed to send email">>,
                       <<"details", "error.message">>}))

\* The resumption calling beginSend before the configuration is tested.
EmailResumeSendsFirst(b, e) ==
    IF ~b.parses
    THEN [pc |-> "done", calls |-> <<>>, response |-> EmailFailed]
    ELSE IF ~b.to \/ ~b.subject \/ ~b.body
    THEN [pc |-> "done", calls |-> <<>>,
          response |->
              Response(400, JsonHeaders,
                       JsonBody({<<"error", "Missing required fields: to, subject, body">>}))]
    ELSE IF e.AZURE_COMMUNICATION_CONNECTION_STRING = "unset"
            \/ e.FROM_EMAIL = "unset"
    THEN [pc |-> "done",
          calls |-> <<[op |-> "beginSend",
                       content |-> IF b.isHtml THEN "html" ELSE "plainText"]>>,
          response |->
              Response(500, JsonHeaders,
                       JsonBody({<<"error", "Missing Azure configuration">>}))]
    ELSE [pc |-> "emailSending",
          calls |-> <<[op |-> "beginSend",
                       content |-> IF b.isHtml THEN "html" ELSE "plainText"]>>,
          response |-> NoResponse]

\* From the resumption after `await request.json()` to the return or to
\* `await emailClient.beginSend(emailMessage)`: the next position, the
\* collaborator calls made and the response returned.  A connection string
\* that is set is well formed: the EmailClient constructor returns.
EmailResume(b, e) ==
    IF ~b.parses
    THEN [pc |-> "done", calls |-> <<>>, response |-> EmailFailed]
    ELSE IF ~b.to \/ ~b.subject \/ ~b.body
    THEN [pc |-> "done", calls |-> <<>>,
          response |->
              Response(400, JsonHeaders,
                       JsonBody({<<"error", "Missing required fields: to, subject, body">>}))]
    ELSE IF e.AZURE_COMMUNICATION_CONNECTION_STRING = "unset"
            \/ e.FROM_EMAIL = "unset"
    THEN [pc |-> "done", calls |-> <<>>,
          response |->
              Response(500, JsonHeaders,
                       JsonBody({<<"error", "Missing Azure configuration">>}))]
    ELSE [pc |-> "emailSending",
          calls |-> <<[op |-> "beginSend",
                       content |-> IF b.isHtml THEN "html" ELSE "plainText"]>>,
          response |-> NoResponse]

EmailJson ==
    /\ pc = "emailJson"
    /\ \E b \in EmailBodies :
        /\ body' = b
        /\ response' = EmailResume(b, env).response
        /\ pc' = EmailResume(b, env).pc
        /\ calls' = calls \o EmailResume(b, env).calls
    /\ UNCHANGED <<env, entry, request, auth, cmp, handler, outcome, peer>>

\* The success response without the message id.
EmailSentNoId ==
    Response(200, JsonHeaders,
             JsonBody({<<"success", "true">>,
                       <<"status", "result.status">>}))

EmailSent ==
    Response(200, JsonHeaders,
             JsonBody({<<"success", "true">>,
                       <<"messageId", "result.id">>,
                       <<"status", "result.status">>}))

\* beginSend and pollUntilDone both resolve.
EmailSendReturns ==
    /\ pc = "emailSending"
    /\ response' = EmailSent
    /\ pc' = "done"
    /\ outcome' = "returned"
    /\ UNCHANGED <<env, entry, request, auth, cmp, handler, body, calls, peer>>

\* beginSend or pollUntilDone rejects: the catch block answers.
EmailSendThrows ==
    /\ pc = "emailSending"
    /\ response' = EmailFailed
    /\ pc' = "done"
    /\ outcome' = "threw"
    /\ UNCHANGED <<env, entry, request, auth, cmp, handler, body, calls, peer>>

\* ---------------------------------------------- notifications, continued
NotificationFailed ==
    Response(500, JsonHeaders,
             JsonBody({<<"error", "Failed to send notification">>,
                       <<"details", "error.message">>}))

\* The dispatch preferring the tag send when tags are given.
DispatchTagsFirst(b, shape) ==
    IF b.deviceHandle /\ ~b.tags
    THEN [op |-> "sendDirectNotification", notification |-> shape,
          target |-> "deviceHandle"]
    ELSE [op |-> "sendNotification", notification |-> shape,
          target |-> IF b.tags THEN "tags" ELSE "all"]

\* The collaborator call for a built notification: direct to the device when
\* deviceHandle is set, else by tags.
Dispatch(b, shape) ==
    IF b.deviceHandle
    THEN [op |-> "sendDirectNotification", notification |-> shape,
          target |-> "deviceHandle"]
    ELSE [op |-> "sendNotification", notification |-> shape,
          target |-> IF b.tags THEN "tags" ELSE "all"]

\* From the resumption after `await request.json()` to the return or to the
\* awaited client call.
NotifyJson ==
    /\ pc = "notifyJson"
    /\ \E b \in NotificationBodies :
        /\ body' = b
        /\ IF ~b.parses
           THEN /\ response' = NotificationFailed
                /\ pc' = "done"
                /\ calls' = calls
           ELSE IF b.platform = "" \/ ~b.message
           THEN /\ response' =
                       Response(400, JsonHeaders,
                                JsonBody({<<"error", "Missing required fields: platform, message">>}))
                /\ pc' = "done"
                /\ calls' = calls
           ELSE IF env.AZURE_NOTIFICATION_HUB_CONNECTION_STRING = "unset"
                   \/ env.AZURE_NOTIFICATION_HUB_NAME = "unset"
           THEN /\ response' =
                       Response(500, JsonHeaders,
                                JsonBody({<<"error", "Missing Azure Notification Hub configuration">>}))
                /\ pc' = "done"
                /\ calls' = calls
           ELSE IF b.templateName /\ b.templateProperties
           THEN /\ response' = response
                /\ pc' = "notifySending"
                /\ calls' = Append(calls, Dispatch(b, "template"))
           ELSE IF b.platform \in {"apns", "fcm", "wns"}
           THEN /\ response' = response
                /\ pc' = "notifySending"
                /\ calls' = Append(calls, Dispatch(b, b.platform))
           ELSE /\ response' =
                       Response(400, JsonHeaders,
                                JsonBody({<<"error", "Unsupported platform: " \o b.platform>>}))
                /\ pc' = "done"
                /\ calls' = calls
    /\ UNCHANGED <<env, entry, request, auth, cmp, handler, outcome, peer>>

NotifySendReturns ==
    /\ pc = "notifySending"
    /\ response' =
           Response(200, JsonHeaders,
                    JsonBody({<<"success", "true">>,
                              <<"notificationId", "result.notificationId">>,
                              <<"state", "result.state">>,
                              <<"trackingId", "result.trackingId">>}))
    /\ pc' = "done"
    /\ outcome' = "returned"
    /\ UNCHANGED <<env, entry, request, auth, cmp, handler, body, calls, peer>>

NotifySendThrows ==
    /\ pc = "notifySending"
    /\ response' = NotificationFailed
    /\ pc' = "done"
    /\ outcome' = "threw"
    /\ UNCHANGED <<env, entry, request, auth, cmp, handler, body, calls, peer>>

\* ------------------------------------------------- the email service worker
\* Addresses an email request can name, and their code units.
Addresses == {"a@b.c", "c@d.e", "a@b", "a b@c.d"}

AddressChars(a) ==
    CASE a = "a@b.c" -> <<97, 64, 98, 46, 99>>
      [] a = "c@d.e" -> <<99, 64, 100, 46, 101>>
      [] a = "a@b" -> <<97, 64, 98>>
      [] a = "a b@c.d" -> <<97, 32, 98, 64, 99, 46, 100>>
      [] OTHER -> <<>>

\* A recipient field of the JSON body: absent, a string (value holds it) or
\* an array of strings.
Absent == [kind |-> "absent", value |-> <<>>]
OneString(a) == [kind |-> "string", value |-> <<a>>]
Array(as) == [kind |-> "array", value |-> as]

ToValues ==
    {Absent, OneString("")}
    \cup {OneString(a) : a \in Addresses}
    \cup {Array(as) : as \in UNION {[1..k -> Addresses] :
                                   k \in 0..MaxRecipients}}

CcValues == {Absent, OneString("a@b"), Array(<<"a@b.c">>)}

\* What `await request.json()` yields in the email service worker: a body
\* that does not parse, or an EmailRequest object.
ServiceBodies ==
    {[read |-> TRUE, parses |-> FALSE, to |-> Absent, cc |-> Absent,
      bcc |-> Absent, subject |-> FALSE, htmlContent |-> FALSE,
      textContent |-> FALSE]}
    \cup [read : {TRUE}, parses : {TRUE}, to : ToValues, cc : CcValues,
          bcc : CcValues, subject : BOOLEAN, htmlContent : BOOLEAN,
          textContent : BOOLEAN]

\* The payloads enumerated when two requests are handled together.
PairServiceBodies ==
    {b \in ServiceBodies :
        \/ ~b.parses
        \/ /\ b.to \in {Absent, OneString("a@b.c"),
                         Array(<<"a@b.c", "a@b">>)}
           /\ b.cc = Absent /\ b.bcc = Absent
           /\ ~b.htmlContent /\ b.textContent}

\* Truthiness of a recipient field: an absent field and "" are falsy, every
\* array is truthy.
TruthyField(r) ==
    r.kind = "array" \/ (r.kind = "string" /\ r.value # <<"">>)

\* new SecurityValidator(env.ALLOWED_ORIGINS).allowedOrigins
allowedOrigins(v) ==
    IF v = Unset \/ v = <<"*">> THEN <<"*">> ELSE v

\* array.includes(x)
includes(array, x) == \E i \in 1..Len(array) : array[i] = x

validateOrigin(req, e) ==
    IF includes(allowedOrigins(e.ALLOWED_ORIGINS), "*") THEN TRUE
    ELSE IF req.Origin # NoOrigin /\ req.Origin # ""
    THEN includes(allowedOrigins(e.ALLOWED_ORIGINS), req.Origin)
    ELSE FALSE

validateContentType(req) == includes(req.ContentType, "application/json")

\* The constructor accepting an endpoint without the client credentials.
initializeEmailClientEndpointOnly(e) ==
    IF e.AZURE_COMMUNICATION_CONNECTION_STRING = "set" THEN "ok"
    ELSE IF e.AZURE_COMMUNICATION_ENDPOINT = "set" THEN "ok"
    ELSE "Missing required Azure Communication Services configuration"

\* The constructor of AzureEmailService returns or throws.
initializeEmailClient(e) ==
    IF e.AZURE_COMMUNICATION_CONNECTION_STRING = "set" THEN "ok"
    ELSE IF /\ e.AZURE_COMMUNICATION_ENDPOINT = "set"
            /\ e.AZURE_CLIENT_ID = "set"
            /\ e.AZURE_CLIENT_SECRET = "set"
            /\ e.AZURE_TENANT_ID = "set"
    THEN "ok"
    ELSE "Missing required Azure Communication Services configuration"

\* \s of a JavaScript regular expression, among the code units used.
Whitespace == {9, 10, 11, 12, 13, 32}

\* /^[^\s@]+@[^\s@]+\.[^\s@]+$/.test(s)
emailRegex(s) ==
    \E i, j \in 1..Len(s) :
        /\ 1 < i /\ i + 1 < j /\ j < Len(s)
        /\ s[i] = 64 /\ s[j] = 46
        /\ \A k \in (1..Len(s)) \ {i} : s[k] \notin Whitespace \cup {64}

\* The conversion yielding no element for a string.
asArrayEmptyForString(r) ==
    IF r.kind = "array" THEN r.value ELSE <<>>

\* Array.isArray(x) ? x : [x]
asArray(r) ==
    IF r.kind = "array" THEN r.value ELSE <<r.value[1]>>

RECURSIVE firstInvalidLast(_, _)
\* The loop reporting the last address the regex rejects.
firstInvalidLast(recipients, i) ==
    IF i > Len(recipients) THEN ""
    ELSE IF firstInvalidLast(recipients, i + 1) # ""
    THEN firstInvalidLast(recipients, i + 1)
    ELSE IF ~emailRegex(AddressChars(recipients[i])) THEN recipients[i]
    ELSE ""

RECURSIVE firstInvalid(_, _)
\* The loop over the recipients: the first address the regex rejects, from
\* position i on, or "" when there is none.
firstInvalid(recipients, i) ==
    IF i > Len(recipients) THEN ""
    ELSE IF ~emailRegex(AddressChars(recipients[i])) THEN recipients[i]
    ELSE firstInvalid(recipients, i + 1)

\* The validation without the address syntax loop.
validateEmailRequestNoSyntax(b) ==
    IF ~TruthyField(b.to) \/ (b.to.kind = "array" /\ Len(b.to.value) = 0)
    THEN "Recipient email address is required"
    ELSE IF ~b.subject THEN "Email subject is required"
    ELSE IF ~b.htmlContent /\ ~b.textContent
    THEN "Either HTML content or text content is required"
    ELSE ""

\* The validation testing the subject before the recipient.
validateEmailRequestSubjectFirst(b) ==
    IF ~b.subject THEN "Email subject is required"
    ELSE IF ~TruthyField(b.to) \/ (b.to.kind = "array" /\ Len(b.to.value) = 0)
    THEN "Recipient email address is required"
    ELSE IF ~b.htmlContent /\ ~b.textContent
    THEN "Either HTML content or text content is required"
    ELSE IF firstInvalid(asArray(b.to), 1) # ""
    THEN "Invalid email format: " \o firstInvalid(asArray(b.to), 1)
    ELSE ""

\* The message of the Error validateEmailRequest throws, "" when it
\* returns.
validateEmailRequest(b) ==
    IF ~TruthyField(b.to) \/ (b.to.kind = "array" /\ Len(b.to.value) = 0)
    THEN "Recipient email address is required"
    ELSE IF ~b.subject THEN "Email subject is required"
    ELSE IF ~b.htmlContent /\ ~b.textContent
    THEN "Either HTML content or text content is required"
    ELSE IF firstInvalid(asArray(b.to), 1) # ""
    THEN "Invalid email format: " \o firstInvalid(asArray(b.to), 1)
    ELSE ""

\* recipients.cc and recipients.bcc of the message: the addresses as a list,
\* undefined for a falsy field.
Recipients(r) == IF TruthyField(r) THEN Array(asArray(r)) ELSE Absent

\* The emailMessage handed to beginSend.
emailMessage(b) ==
    [op |-> "beginSend",
     subject |-> b.subject, html |-> b.htmlContent,
     plainText |-> b.textContent,
     to |-> asArray(b.to), cc |-> Recipients(b.cc), bcc |-> Recipients(b.bcc)]

CorsJsonHeaders == JsonHeaders \cup {<<"Access-Control-Allow-Origin", "*">>}

Preflight ==
    Response(200,
             {<<"Access-Control-Allow-Origin", "*">>,
              <<"Access-Control-Allow-Methods", "POST, OPTIONS">>,
              <<"Access-Control-Allow-Headers", "Content-Type, Authorization">>,
              <<"Access-Control-Max-Age", "86400">>},
             NoBody)

\* A 4xx answer of the worker: {error: text} without a CORS header.
ServiceRejected(status, text) ==
    Response(status, JsonHeaders, JsonBody({<<"error", text>>}))

\* The 500 answer for a failed send: the EmailResponse of sendEmail's catch
\* block, and the body of the worker's outer catch block.
ServiceFailed(message) ==
    Response(500, CorsJsonHeaders,
             JsonBody({<<"success", "false">>, <<"error", message>>,
                       <<"timestamp", "now">>}))

ServiceSent ==
    Response(200, CorsJsonHeaders,
             JsonBody({<<"success", "true">>, <<"messageId", "result.id">>,
                       <<"timestamp", "now">>}))

\* The pre-validation with the content type tested before the origin.
ServiceEnterContentTypeFirst(req, e) ==
    IF req.method = "OPTIONS"
    THEN [pc |-> "done", response |-> Preflight]
    ELSE IF req.method # "POST"
    THEN [pc |-> "done",
          response |-> ServiceRejected(405, "Method not allowed")]
    ELSE IF ~validateContentType(req)
    THEN [pc |-> "done",
          response |-> ServiceRejected(400, "Invalid content type")]
    ELSE IF ~validateOrigin(req, e)
    THEN [pc |-> "done",
          response |-> ServiceRejected(403, "Unauthorized origin")]
    ELSE [pc |-> "serviceJson", response |-> NoResponse]

\* The worker's fetch, from its entry to `await request.json()`.
ServiceEnter(req, e) ==
    IF req.method = "OPTIONS"
    THEN [pc |-> "done", response |-> Preflight]
    ELSE IF req.method # "POST"
    THEN [pc |-> "done",
          response |-> ServiceRejected(405, "Method not allowed")]
    ELSE IF ~validateOrigin(req, e)
    THEN [pc |-> "done",
          response |-> ServiceRejected(403, "Unauthorized origin")]
    ELSE IF ~validateContentType(req)
    THEN [pc |-> "done",
          response |-> ServiceRejected(400, "Invalid content type")]
    ELSE [pc |-> "serviceJson", response |-> NoResponse]

ServiceFetch ==
    /\ pc = "received"
    /\ entry = "emailService"
    /\ handler' = "emailService"
    /\ response' = ServiceEnter(request, env).response
    /\ pc' = ServiceEnter(request, env).pc
    /\ UNCHANGED <<env, entry, request, auth, cmp, body, calls, outcome, peer>>

\* The resumption with the constructor's exception escaping the worker: no
\* response is produced.
ServiceResumeUncaught(b, e) ==
    IF ~b.parses
    THEN [pc |-> "done", calls |-> <<>>,
          response |-> ServiceRejected(400, "Invalid JSON in request body")]
    ELSE IF initializeEmailClient(e) # "ok"
    THEN [pc |-> "faulted", calls |-> <<>>, response |-> NoResponse]
    ELSE IF validateEmailRequest(b) # ""
    THEN [pc |-> "done", calls |-> <<>>,
          response |-> ServiceFailed(validateEmailRequest(b))]
    ELSE [pc |-> "serviceSending", calls |-> <<emailMessage(b)>>,
          response |-> NoResponse]

\* From the resumption after `await request.json()` through the constructor
\* of AzureEmailService and sendEmail, to the return or to
\* `await this.emailClient.beginSend(emailMessage)`: the next position, the
\* collaborator calls made and the response returned.
ServiceResume(b, e) ==
    IF ~b.parses
    THEN [pc |-> "done", calls |-> <<>>,
          response |-> ServiceRejected(400, "Invalid JSON in request body")]
    ELSE IF initializeEmailClient(e) # "ok"
    THEN [pc |-> "done", calls |-> <<>>,
          response |-> ServiceFailed(initializeEmailClient(e))]
    ELSE IF validateEmailRequest(b) # ""
    THEN [pc |-> "done", calls |-> <<>>,
          response |-> ServiceFailed(validateEmailRequest(b))]
    ELSE [pc |-> "serviceSending", calls |-> <<emailMessage(b)>>,
          response |-> NoResponse]

ServiceJson ==
    /\ pc = "serviceJson"
    /\ \E b \in IF peer.pc = "absent" THEN ServiceBodies
                 ELSE PairServiceBodies :
        /\ body' = b
        /\ response' = ServiceResume(b, env).response
        /\ pc' = ServiceResume(b, env).pc
        /\ calls' = calls \o ServiceResume(b, env).calls
    /\ UNCHANGED <<env, entry, request, auth, cmp, handler, outcome, peer>>

\* beginSend and pollUntilDone both resolve.
ServiceSendReturns ==
    /\ pc = "serviceSending"
    /\ response' = ServiceSent
    /\ pc' = "done"
    /\ outcome' = "returned"
    /\ UNCHANGED <<env, entry, request, auth, cmp, handler, body, calls, peer>>

\* beginSend or pollUntilDone rejects: sendEmail's catch block builds the
\* result.
ServiceSendThrows ==
    /\ pc = "serviceSending"
    /\ response' = ServiceFailed("error.message")
    /\ pc' = "done"
    /\ outcome' = "threw"
    /\ UNCHANGED <<env, entry, request, auth, cmp, handler, body, calls, peer>>

Next ==
    \/ RouterFetch
    \/ NotificationsFetch
    \/ EmailJson
    \/ EmailSendReturns
    \/ EmailSendThrows
    \/ NotifyJson
    \/ NotifySendReturns
    \/ NotifySendThrows
    \/ ServiceFetch
    \/ ServiceJson
    \/ ServiceSendReturns
    \/ ServiceSendThrows

Spec == Init /\ [][Next]_vars

\* ------------------------------------------------------ the AuthGate alone
\* Requests to the Router that differ in their credentials only, with longer
\* keys; the paths are served without awaiting anything.
InitAuth ==
    /\ entry = "router"
    /\ request \in Requests({"GET"}, {"/email", "/unknown"}, MaxTokenLen,
                             {NoContentType})
    /\ env \in Envs(FALSE, FALSE, MaxTokenLen)
    /\ pc = "received"
    /\ auth = <<>>
    /\ cmp = NoCmp
    /\ handler = "none"
    /\ body = Unread
    /\ calls = <<>>
    /\ outcome = "none"
    /\ response = NoResponse
    /\ peer = NoPeer

SpecAuth == InitAuth /\ [][RouterFetch]_vars

\* ------------------------------------------------ two requests in one worker
\* The request-scoped state of the scheduled request.
Scheduled ==
    [request |-> request, pc |-> pc, auth |-> auth, cmp |-> cmp,
     handler |-> handler, body |-> body, calls |-> calls,
     outcome |-> outcome, response |-> response]

\* The switch with the parsed body kept in a variable both requests use.
SwitchSharedBody ==
    /\ peer.pc \notin {"absent", "done"}
    /\ peer' = Scheduled
    /\ request' = peer.request
    /\ pc' = peer.pc
    /\ auth' = peer.auth
    /\ cmp' = peer.cmp
    /\ handler' = peer.handler
    /\ body' = IF body.read THEN body ELSE peer.body
    /\ calls' = peer.calls
    /\ outcome' = peer.outcome
    /\ response' = peer.response
    /\ UNCHANGED <<env, entry>>

\* The runtime resumes the other request: a handler runs until it awaits or
\* returns, and every action above ends at such a point.  Each request has
\* its own Request, parsed body, clients and Response; env is shared and
\* only read.
Switch ==
    /\ peer.pc \notin {"absent", "done"}
    /\ peer' = Scheduled
    /\ request' = peer.request
    /\ pc' = peer.pc
    /\ auth' = peer.auth
    /\ cmp' = peer.cmp
    /\ handler' = peer.handler
    /\ body' = peer.body
    /\ calls' = peer.calls
    /\ outcome' = peer.outcome
    /\ response' = peer.response
    /\ UNCHANGED <<env, entry>>

\* Requests and configurations of the two-request runs.
PairRequests(e) ==
    IF e = "emailService"
    THEN {r \in ServiceRequests :
             /\ r.method \in {"GET", "POST"}
             /\ r.Origin \in {NoOrigin, "https://example.com"}
             /\ r.ContentType \in {JsonContentType, <<"text/plain">>}}
    ELSE {r \in Requests({"GET", "POST"}, {"/email", "/health", "/unknown"},
                         MaxKeyLen, {NoContentType}) :
             /\ r.Authorization \in {Null, <<97>>}
             /\ r.xApiKey = Null /\ r.api_key = Null}

PairEnvs(e) ==
    IF e = "emailService"
    THEN {v \in ServiceEnvs :
             /\ v.ALLOWED_ORIGINS \in {Unset, <<"https://example.com">>}
             /\ v.AZURE_CLIENT_ID = v.AZURE_COMMUNICATION_ENDPOINT
             /\ v.AZURE_CLIENT_SECRET = v.AZURE_COMMUNICATION_ENDPOINT
             /\ v.AZURE_TENANT_ID = v.AZURE_COMMUNICATION_ENDPOINT}
    ELSE {v \in Envs(TRUE, FALSE, MaxKeyLen) : v.API_KEY \in {Null, <<97>>}}

InitPair ==
    /\ entry \in {"router", "emailService"}
    /\ request \in PairRequests(entry)
    /\ env \in PairEnvs(entry)
    /\ pc = "received"
    /\ auth = <<>>
    /\ cmp = NoCmp
    /\ handler = "none"
    /\ body = Unread
    /\ calls = <<>>
    /\ outcome = "none"
    /\ response = NoResponse
    /\ peer \in {[NoPeer EXCEPT !.request = r, !.pc = "received"] :
                    r \in PairRequests(entry)}

NextPair ==
    \/ RouterFetch
    \/ EmailJson
    \/ EmailSendReturns
    \/ EmailSendThrows
    \/ ServiceFetch
    \/ ServiceJson
    \/ ServiceSendReturns
    \/ ServiceSendThrows
    \/ Switch

SpecPair == InitPair /\ [][NextPair]_vars

\* ------------------------------------------------------------- termination
\* One request with fewer credentials, origins and settings.
InitLive ==
    /\ entry \in Entries
    /\ request \in
           IF entry = "emailService"
           THEN {r \in ServiceRequests :
                    /\ r.Origin \in {NoOrigin, "https://example.com"}
                    /\ r.ContentType \in {JsonContentType, <<"text/plain">>}}
           ELSE {r \in Requests(Methods, Paths, MaxKeyLen, {NoContentType}) :
                    /\ r.Authorization \in {Null, <<97>>, BearerPrefix \o <<97>>}
                    /\ r.xApiKey = Null /\ r.api_key = Null}
    /\ env \in
           IF entry = "emailService" THEN PairEnvs(entry)
           ELSE {v \in Envs(entry = "router" /\ request.path \in EmailPaths,
                            entry = "notifications"
                                \/ request.path \in NotificationPaths,
                            MaxKeyLen) :
                    v.API_KEY \in {Null, <<97>>, <<98>>}}
    /\ pc = "received"
    /\ auth = <<>>
    /\ cmp = NoCmp
    /\ handler = "none"
    /\ body = Unread
    /\ calls = <<>>
    /\ outcome = "none"
    /\ response = NoResponse
    /\ peer = NoPeer

\* A handler that can run runs, and an awaited collaborator call returns or
\* throws.
SpecLive == InitLive /\ [][Next]_vars /\ WF_vars(Next)

\* ================================================================== claims
\* The credential of a request as the specification describes it: the
\* Authorization value without a leading "Bearer ", else the x-api-key
\* header, else the api_key parameter; the first non-empty one.
Stripped(h) ==
    IF h # Null /\ Len(h) >= 7 /\ SubSeq(h, 1, 7) = BearerPrefix
    THEN SubSeq(h, 8, Len(h))
    ELSE h

Credential(req) ==
    IF Truthy(Stripped(req.Authorization)) THEN Stripped(req.Authorization)
    ELSE IF Truthy(req.xApiKey) THEN req.xApiKey
    ELSE req.api_key

\* The request carries the configured key as its credential.
HasValidKey == Truthy(env.API_KEY) /\ Credential(request) = env.API_KEY

HasHeader(name, value) == <<name, value>> \in response.headers

HasField(name, value) ==
    response.body.kind = "json" /\ <<name, value>> \in response.body.fields

\* C1: a request to the Router for `/` or `/health` is answered 200 with the
\* health body, whatever its method and credentials and whether or not the
\* API key secret is configured; it never gets an authentication error.
C1_HealthAlways200 ==
    (entry = "router" /\ request.path \in HealthPaths /\ pc # "received")
        => /\ pc = "done"
           /\ response.status = 200
           /\ HasField("status", "healthy")
           /\ HasField("endpoints.health", "/health")
           /\ auth = <<0>>

\* C1 witness: `/` answered 200 with no secret configured and a credential
\* in the Authorization header.
C1_Witness ==
    /\ entry = "router" /\ request.path = "/" /\ pc = "done"
    /\ env.API_KEY = Null /\ request.Authorization = <<98>>
    /\ request.method = "PUT"
    /\ response.status = 200

\* C2: through the Router, an endpoint handler is entered only after
\* AuthGate returned ok for the request, and a collaborator is called only
\* for a request whose credential is the configured key.
C2_HandlerOnlyAfterAuth ==
    entry = "router"
        => /\ handler # "none" =>
                  /\ Len(auth) >= 1 /\ auth[1] = 0
                  /\ request.path \in EmailPaths \cup NotificationPaths
           /\ calls # <<>> => (handler # "none" /\ HasValidKey)
           /\ ~HasValidKey /\ request.path \notin HealthPaths
                  /\ pc # "received"
                  => pc = "done" /\ response.status \in {401, 403, 500}

\* C2 witness: an authenticated request reached the collaborator.
C2_Witness ==
    /\ entry = "router" /\ handler = "notifications" /\ calls # <<>>
    /\ auth = <<0, 0>> /\ HasValidKey

\* C3: AuthGate uses the first non-empty credential in the order
\* Authorization (without "Bearer "), x-api-key, api_key, and nothing after
\* it: the outcome is the one that credential alone determines.
C3_CarrierPrecedence ==
    (pc = "done" /\ Truthy(env.API_KEY))
        => /\ ~Truthy(Credential(request)) => response.status = 401
           /\ Truthy(Credential(request)) =>
                  /\ cmp # NoCmp /\ cmp.a = Credential(request)
                  /\ Credential(request) # env.API_KEY
                         => response.status = 403
                  /\ Credential(request) = env.API_KEY
                         => response.status \in {404, 405}

\* C3 witness: a wrong Authorization value with the correct x-api-key is
\* rejected.
C3_Witness ==
    /\ pc = "done" /\ env.API_KEY = <<97, 98>>
    /\ request.Authorization = BearerPrefix \o <<98>>
    /\ request.xApiKey = <<97, 98>>
    /\ response.status = 403

\* C4: with no API key secret configured (absent or empty) every request to
\* the Router for a path other than `/` and `/health` gets 500, whatever it
\* carries.
C4_MisconfiguredIs500 ==
    (entry = "router" /\ ~Truthy(env.API_KEY)
       /\ request.path \notin HealthPaths /\ pc # "received")
        => pc = "done" /\ response = ServerMisconfigured
           /\ response.status = 500 /\ handler = "none"

\* C4 witness: an empty secret and a request without any credential.
C4_Witness ==
    /\ entry = "router" /\ env.API_KEY = <<>> /\ pc = "done"
    /\ request.path = "/email"
    /\ request.Authorization = Null /\ request.xApiKey = Null
    /\ request.api_key = Null
    /\ response.status = 500

\* C5: with the secret configured, a request to the Router for a protected
\* path in which no carrier yields a non-empty token gets 401 with the
\* header WWW-Authenticate: Bearer.
C5_MissingCredentialIs401 ==
    (entry = "router" /\ Truthy(env.API_KEY)
       /\ request.path \notin HealthPaths /\ pc # "received"
       /\ ~Truthy(Stripped(request.Authorization))
       /\ ~Truthy(request.xApiKey) /\ ~Truthy(request.api_key))
        => pc = "done" /\ response.status = 401
           /\ HasHeader("WWW-Authenticate", "Bearer")

\* C5 witness: POST /notifications with no API key at all.
C5_Witness ==
    /\ entry = "router" /\ Truthy(env.API_KEY) /\ pc = "done"
    /\ request.method = "POST" /\ request.path = "/notifications"
    /\ request.Authorization = Null /\ request.xApiKey = Null
    /\ request.api_key = Null
    /\ response.status = 401

\* C6: timingSafeEqual returns true exactly when its arguments are the same
\* string, so AuthGate returns ok exactly when the credential is the secret
\* and answers 403 for every other non-empty credential.
C6_EqualIffSame ==
    /\ cmp # NoCmp => (cmp.ret <=> cmp.a = cmp.b)
    /\ (pc = "done" /\ Truthy(env.API_KEY) /\ Truthy(Credential(request)))
           => /\ cmp # NoCmp /\ cmp.b = env.API_KEY
              /\ auth = <<0>> <=> Credential(request) = env.API_KEY
              /\ response.status = 403
                     <=> Credential(request) # env.API_KEY

\* C6 witness: two keys of equal length that differ in the first character
\* only are unequal, and the request is answered 403.
C6_Witness ==
    /\ cmp.a = <<97, 98>> /\ cmp.b = <<98, 98>> /\ ~cmp.ret
    /\ response.status = 403

\* C7: for arguments of equal length timingSafeEqual runs its loop body once
\* per character, wherever they differ; for unequal lengths it runs it zero
\* times.
C7_FullLengthLoop ==
    cmp # NoCmp
        => cmp.iterations = IF Len(cmp.a) = Len(cmp.b) THEN Len(cmp.a) ELSE 0

\* C7 witness: keys differing in the first of two characters, two iterations.
C7_Witness ==
    /\ cmp # NoCmp /\ Len(cmp.a) = 2 /\ Len(cmp.b) = 2
    /\ cmp.a[1] # cmp.b[1] /\ cmp.iterations = 2

\* C8 as stated: every request to `/email` or `/notifications` whose method
\* is neither POST nor OPTIONS is answered 405.
C8_NonPostIs405 ==
    (entry = "router" /\ request.path \in {"/email", "/notifications"}
       /\ request.method \notin {"POST", "OPTIONS"} /\ pc = "done")
        => response.status = 405

\* C8 (amended): a request to `/email` or `/notifications` whose method is
\* neither POST nor OPTIONS is answered 405 when it carries the configured
\* API key; without it AuthGate answers first, with 500, 401 or 403.
C8_AuthenticatedNonPostIs405 ==
    (request.path \in EmailPaths \cup NotificationPaths
       /\ request.method \notin {"POST", "OPTIONS"} /\ pc # "received")
        => /\ pc = "done"
           /\ HasValidKey => response = MethodNotAllowed
           /\ HasValidKey => response.status = 405
           /\ ~HasValidKey => response.status \in {500, 401, 403}

\* C8 witness: GET /email through the Router with the valid key.
C8_Witness ==
    /\ entry = "router" /\ request.path = "/email" /\ request.method = "GET"
    /\ HasValidKey /\ pc = "done" /\ response.status = 405

\* C9: an OPTIONS request to the Router for any path is answered, before
\* authentication, with 200 and the headers Access-Control-Allow-Origin: *
\* and Access-Control-Allow-Methods: POST, OPTIONS; no API key is needed.
C9_OptionsIsPreflight ==
    (entry = "router" /\ request.method = "OPTIONS" /\ pc # "received")
        => /\ pc = "done"
           /\ response.status = 200
           /\ HasHeader("Access-Control-Allow-Origin", "*")
           /\ HasHeader("Access-Control-Allow-Methods", "POST, OPTIONS")

\* C10 as stated: every request to the Router for a path outside the six
\* routed ones is answered 404 with the endpoint list and the path.
C10_UnknownPathIs404 ==
    (entry = "router" /\ pc = "done"
       /\ request.path \notin
              HealthPaths \cup EmailPaths \cup NotificationPaths)
        => /\ response.status = 404
           /\ HasField("message",
                       "Available endpoints: /email, /notifications, /health")
           /\ HasField("path", request.path)

\* C10 (amended): a request to the Router for a path outside the six routed
\* ones is answered 404 with the endpoint list and the path when it carries
\* the configured API key; without it AuthGate answers first, with 500, 401
\* or 403.
C10_AuthenticatedUnknownPathIs404 ==
    (entry = "router" /\ pc # "received"
       /\ request.path \notin
              HealthPaths \cup EmailPaths \cup NotificationPaths)
        => /\ pc = "done"
           /\ HasValidKey =>
                  /\ response.status = 404
                  /\ HasField("error", "Not Found")
                  /\ HasField("message",
                              "Available endpoints: /email, /notifications, /health")
                  /\ HasField("path", request.path)
           /\ ~HasValidKey => response.status \in {500, 401, 403}

\* C10 witness: GET /unknown with the valid key in the query parameter.
C10_Witness ==
    /\ entry = "router" /\ request.path = "/unknown" /\ pc = "done"
    /\ request.method = "GET" /\ HasValidKey
    /\ request.api_key = env.API_KEY
    /\ response.status = 404

\* The Azure settings the handler that was entered needs are all present.
EmailConfigured ==
    /\ env.AZURE_COMMUNICATION_CONNECTION_STRING = "set"
    /\ env.FROM_EMAIL = "set"

HubConfigured ==
    /\ env.AZURE_NOTIFICATION_HUB_CONNECTION_STRING = "set"
    /\ env.AZURE_NOTIFICATION_HUB_NAME = "set"

\* The JSON body of the request was read and is an object.
Parsed == body.read /\ body.parses

\* Addresses of the form local@domain.tld.
WellFormed == {"a@b.c", "c@d.e"}

\* The `to` of an email service payload is absent, "" or an empty array.
NoRecipient(b) ==
    b.to.kind = "absent" \/ b.to.value = <<"">> \/ b.to.value = <<>>

\* An email service payload breaks a business rule.
InvalidPayload(b) ==
    \/ NoRecipient(b)
    \/ ~b.subject
    \/ (~b.htmlContent /\ ~b.textContent)
    \/ \E i \in 1..Len(b.to.value) : b.to.value[i] \notin WellFormed

\* The response has a non-empty `error` field.
HasError ==
    /\ response.body.kind = "json"
    /\ \E f \in response.body.fields : f[1] = "error" /\ f[2] # ""

\* C11: an email payload that misses the recipient, the subject or the body,
\* or has a badly formed `to` address, is answered 500 with success false
\* and an error message, never 200, and no collaborator call is made.
C11_ValidationFailureIs500 ==
    (entry = "emailService" /\ Parsed /\ InvalidPayload(body))
        => /\ pc = "done"
           /\ response.status = 500
           /\ HasField("success", "false")
           /\ HasError
           /\ calls = <<>>
           /\ outcome = "none"

\* C11 witness: a payload whose second `to` address has no top-level domain,
\* with the Azure client configured, answered 500.
C11_Witness ==
    /\ entry = "emailService" /\ Parsed
    /\ body.to = Array(<<"a@b.c", "a@b">>)
    /\ body.subject /\ body.textContent
    /\ env.AZURE_COMMUNICATION_CONNECTION_STRING = "set"
    /\ response.status = 500
    /\ HasField("error", "Invalid email format: a@b")

\* C12: every email payload without `to` (absent, empty string or empty
\* array) is answered with the error "Recipient email address is required".
C12_MissingRecipientError ==
    /\ (entry = "emailService" /\ Parsed /\ NoRecipient(body))
           => HasField("error", "Recipient email address is required")
    /\ (handler = "email" /\ Parsed /\ ~body.to)
           => HasField("error", "Recipient email address is required")

\* C12 (amended): in the email service worker, a POST that passed the
\* method, origin, content-type and JSON checks, with the Azure client
\* configured, whose payload has no `to` is answered 500 with the error
\* "Recipient email address is required", whatever else the payload lacks;
\* without the configuration the error is the configuration's, and the
\* Router's email handler answers 400 "Missing required fields: to,
\* subject, body".
C12_MissingRecipientErrorConfigured ==
    /\ (entry = "emailService" /\ Parsed /\ NoRecipient(body))
           => /\ pc = "done"
              /\ response.status = 500
              /\ HasField("error",
                          IF initializeEmailClient(env) = "ok"
                          THEN "Recipient email address is required"
                          ELSE "Missing required Azure Communication Services configuration")
    /\ (handler = "email" /\ Parsed /\ ~body.to)
           => /\ response.status = 400
              /\ HasField("error",
                          "Missing required fields: to, subject, body")

\* C12 witness: a payload with an empty `to` array and no subject, client
\* configured by endpoint and credentials, answered with the recipient
\* error.
C12_Witness ==
    /\ entry = "emailService" /\ Parsed
    /\ body.to = Array(<<>>) /\ ~body.subject
    /\ env.AZURE_COMMUNICATION_CONNECTION_STRING = "unset"
    /\ initializeEmailClient(env) = "ok"
    /\ response.status = 500
    /\ HasField("error", "Recipient email address is required")

\* C13: a POST to `/email` through the Router with a valid API key, a JSON
\* content type and the payload {to, subject, textContent} is answered 200
\* with success true and the collaborator's message id.
C13_TextContentPayloadIs200 ==
    (entry = "router" /\ request.path = "/email" /\ request.method = "POST"
       /\ HasValidKey /\ request.ContentType = JsonContentType
       /\ EmailConfigured /\ pc = "done" /\ Parsed
       /\ body.to /\ body.subject /\ body.textContent /\ ~body.body
       /\ ~body.isHtml)
        => /\ response.status = 200
           /\ HasField("success", "true")
           /\ HasField("messageId", "result.id")

\* C13 (amended): a POST to `/email` through the Router with a valid API
\* key and the payload {to, subject, body}, with the Azure email settings
\* present, hands one message to the collaborator and, when the
\* collaborator succeeds, is answered 200 with success true and the
\* collaborator's message id; a payload without `body` is answered 400 and
\* nothing is sent, whether or not it has a textContent.
C13_BodyPayloadIs200 ==
    (entry = "router" /\ request.path \in EmailPaths
       /\ request.method = "POST" /\ HasValidKey /\ EmailConfigured
       /\ Parsed /\ body.to /\ body.subject)
        => /\ body.body =>
                  /\ Len(calls) = 1 /\ calls[1].op = "beginSend"
                  /\ outcome = "returned" =>
                         /\ pc = "done"
                         /\ response.status = 200
                         /\ HasField("success", "true")
                         /\ HasField("messageId", "result.id")
           /\ ~body.body =>
                  /\ pc = "done" /\ calls = <<>>
                  /\ response.status = 400
                  /\ HasField("error",
                              "Missing required fields: to, subject, body")

\* C13 witness: the JSON POST /email with {to, subject, body} answered 200
\* after the collaborator returned.
C13_Witness ==
    /\ entry = "router" /\ request.path = "/email" /\ HasValidKey
    /\ request.ContentType = JsonContentType
    /\ Parsed /\ body.to /\ body.subject /\ body.body /\ ~body.textContent
    /\ outcome = "returned" /\ response.status = 200
    /\ HasField("messageId", "result.id")

\* C14: every to, cc and bcc address of a message handed to the email
\* collaborator is well formed; a request with a malformed cc or bcc address
\* is never sent.
C14_SentAddressesWellFormed ==
    (entry = "emailService" /\ calls # <<>>)
        => /\ \A i \in 1..Len(calls[1].to) : calls[1].to[i] \in WellFormed
           /\ \A i \in 1..Len(calls[1].cc.value) :
                  calls[1].cc.value[i] \in WellFormed
           /\ \A i \in 1..Len(calls[1].bcc.value) :
                  calls[1].bcc.value[i] \in WellFormed

\* C15: the email service worker accepts the origin of a POST exactly when
\* the allow-list is `*` or empty, or the request has an Origin header equal
\* to one entry of the comma-split list; a rejected request is answered 403
\* `Unauthorized origin`.
C15_OriginAcceptedIff ==
    (entry = "emailService" /\ request.method = "POST" /\ pc # "received")
        => LET listed ==
                   \/ env.ALLOWED_ORIGINS \in {Unset, <<"*">>, <<"">>}
                   \/ /\ request.Origin # NoOrigin
                      /\ \E i \in 1..Len(env.ALLOWED_ORIGINS) :
                             env.ALLOWED_ORIGINS[i] = request.Origin
           IN  /\ listed <=> response.status # 403
               /\ ~listed => HasField("error", "Unauthorized origin")

\* C16: a notification request with templateName and templateProperties is
\* sent on the template path even when message or platform is absent.
C16_TemplateBypassesFieldCheck ==
    (handler = "notifications" /\ Parsed /\ HubConfigured
       /\ body.templateName /\ body.templateProperties)
        => /\ Len(calls) = 1
           /\ calls[1].notification = "template"
           /\ response.status \notin {400}

\* C17: a non-template notification request with platform and message is
\* answered 400 `Unsupported platform` exactly when its platform is not one
\* of apns, fcm, wns, mpns, adm, baidu; each of the six leads to a
\* collaborator call.
C17_UnsupportedIffOutsideEnum ==
    (handler = "notifications" /\ Parsed /\ HubConfigured
       /\ body.platform # "" /\ body.message
       /\ ~(body.templateName /\ body.templateProperties))
        => /\ (/\ response.status = 400
               /\ HasField("error", "Unsupported platform: " \o body.platform))
                  <=> body.platform \notin Platforms
           /\ body.platform \in Platforms => Len(calls) = 1

\* C18: on either endpoint a POST that passed the earlier checks and whose
\* body does not parse as JSON is answered 400, and no collaborator call is
\* made.
C18_UnparsableJsonIs400 ==
    (body.read /\ ~body.parses)
        => /\ response.status = 400
           /\ calls = <<>>

\* C19: a notification request that reaches dispatch invokes exactly one
\* collaborator operation: the direct send when deviceHandle is present
\* (tags or not), else the tag send with the request's tags; when the
\* collaborator returns the response is 200 with success true.
C19_DispatchTarget ==
    handler = "notifications"
        => /\ Len(calls) <= 1
           /\ pc = "notifySending" => Len(calls) = 1
           /\ calls # <<>> =>
                  /\ Parsed
                  /\ calls[1].notification =
                         IF body.templateName /\ body.templateProperties
                         THEN "template" ELSE body.platform
                  /\ body.deviceHandle =>
                         /\ calls[1].op = "sendDirectNotification"
                         /\ calls[1].target = "deviceHandle"
                  /\ ~body.deviceHandle =>
                         /\ calls[1].op = "sendNotification"
                         /\ calls[1].target =
                                IF body.tags THEN "tags" ELSE "all"
           /\ outcome = "returned" =>
                  /\ pc = "done"
                  /\ response.status = 200
                  /\ HasField("success", "true")

\* C19 witness: a request with both deviceHandle and tags sent directly and
\* answered 200.
C19_Witness ==
    /\ handler = "notifications" /\ Parsed
    /\ body.deviceHandle /\ body.tags
    /\ Len(calls) = 1 /\ calls[1].op = "sendDirectNotification"
    /\ outcome = "returned" /\ response.status = 200

\* C20: in the email and the notification handler, a collaborator that
\* returns yields 200 with success true and the collaborator's id, and a
\* collaborator that throws yields 500 with success false and an error
\* field carrying the collaborator's message.
C20_OutcomeDeterminesResponse ==
    (handler = "notifications" \/ entry = "emailService")
        => /\ outcome = "returned" =>
                  /\ response.status = 200
                  /\ HasField("success", "true")
                  /\ \/ HasField("messageId", "result.id")
                     \/ HasField("notificationId", "result.notificationId")
           /\ outcome = "threw" =>
                  /\ response.status = 500
                  /\ HasField("success", "false")
                  /\ HasField("error", "error.message")

\* The response body is JSON with a field of the given name.
HasFieldNamed(name) ==
    /\ response.body.kind = "json"
    /\ \E f \in response.body.fields : f[1] = name

\* C21: every response with a 4xx or 5xx status has a JSON body with an
\* `error` or `message` field and a `timestamp` field.
C21_ErrorsHaveTimestamp ==
    response.status >= 400
        => /\ HasFieldNamed("error") \/ HasFieldNamed("message")
           /\ HasFieldNamed("timestamp")

\* C22: every response of the email service worker to a request that is not
\* OPTIONS carries Access-Control-Allow-Origin: *.
C22_CorsOnEveryResponse ==
    (entry = "emailService" /\ pc = "done" /\ request.method # "OPTIONS")
        => HasHeader("Access-Control-Allow-Origin", "*")

\* C23: with no connection string and an incomplete endpoint / client id /
\* client secret / tenant id, every POST to the email service worker that
\* passed the method, origin, content-type and JSON checks is answered 500
\* with success false and the missing-configuration error, whatever its
\* payload, and no collaborator call is made.
C23_MissingConfigurationIs500 ==
    (/\ entry = "emailService" /\ Parsed
     /\ env.AZURE_COMMUNICATION_CONNECTION_STRING = "unset"
     /\ \/ env.AZURE_COMMUNICATION_ENDPOINT = "unset"
        \/ env.AZURE_CLIENT_ID = "unset"
        \/ env.AZURE_CLIENT_SECRET = "unset"
        \/ env.AZURE_TENANT_ID = "unset")
        => /\ pc = "done"
           /\ response.status = 500
           /\ HasField("success", "false")
           /\ HasField("error",
                       "Missing required Azure Communication Services configuration")
           /\ calls = <<>>
           /\ outcome = "none"

\* C23 witness: a valid payload, an endpoint and two credentials but no
\* tenant id, answered with the configuration error.
C23_Witness ==
    /\ entry = "emailService" /\ Parsed
    /\ ~InvalidPayload(body)
    /\ env.AZURE_COMMUNICATION_CONNECTION_STRING = "unset"
    /\ env.AZURE_COMMUNICATION_ENDPOINT = "set"
    /\ env.AZURE_CLIENT_ID = "set"
    /\ env.AZURE_CLIENT_SECRET = "set"
    /\ env.AZURE_TENANT_ID = "unset"
    /\ response.status = 500
    /\ HasField("error",
                "Missing required Azure Communication Services configuration")

\* C24: the notification handler calls the notification collaborator only
\* for a request that carries the configured API key, on every path it is
\* served on, `/` and `/health` of the stand-alone deployment included.
C24_NotifyOnlyWithValidKey ==
    (handler = "notifications" /\ calls # <<>>) => HasValidKey

\* The origin check of the email service worker rejects the request: the
\* allow-list is set, has no `*` entry, and no entry is the request's
\* non-empty Origin.
OriginRejected ==
    /\ env.ALLOWED_ORIGINS # Unset
    /\ \A i \in 1..Len(env.ALLOWED_ORIGINS) : env.ALLOWED_ORIGINS[i] # "*"
    /\ \/ request.Origin \in {NoOrigin, ""}
       \/ \A i \in 1..Len(env.ALLOWED_ORIGINS) :
              env.ALLOWED_ORIGINS[i] # request.Origin

\* The Content-Type of the request mentions application/json.
JsonTyped ==
    \E i \in 1..Len(request.ContentType) :
        request.ContentType[i] = "application/json"

\* C25: the content-type check precedes the origin check: a POST to the
\* email service worker without a JSON content type and from an origin
\* outside a restrictive allow-list is answered 400 `Invalid content type`.
C25_ContentTypeBeforeOrigin ==
    (/\ entry = "emailService" /\ pc # "received"
     /\ request.method = "POST" /\ ~JsonTyped /\ OriginRejected)
        => /\ response.status = 400
           /\ HasField("error", "Invalid content type")

\* C25 (amended): the checks short-circuit at the first failure in the
\* order method, origin, content type, JSON: a POST the origin check rejects
\* is answered 403 `Unauthorized origin` whatever its content type; a POST
\* that passes it without a JSON content type is answered 400 `Invalid
\* content type`; only a POST passing both has its body read.
C25_OriginBeforeContentType ==
    (entry = "emailService" /\ pc # "received")
        => /\ request.method \notin {"POST", "OPTIONS"} =>
                  /\ response.status = 405 /\ ~body.read
           /\ (request.method = "POST" /\ OriginRejected) =>
                  /\ response.status = 403
                  /\ HasField("error", "Unauthorized origin")
                  /\ ~body.read
           /\ (request.method = "POST" /\ ~OriginRejected /\ ~JsonTyped) =>
                  /\ response.status = 400
                  /\ HasField("error", "Invalid content type")
                  /\ ~body.read
           /\ (request.method = "POST" /\ ~OriginRejected /\ JsonTyped
                 /\ body.read /\ ~body.parses) =>
                  /\ response.status = 400
                  /\ HasField("error", "Invalid JSON in request body")
           /\ body.read =>
                  request.method = "POST" /\ ~OriginRejected /\ JsonTyped

\* C25 witness: a text/plain POST from an origin that is not on the list,
\* answered 403.
C25_Witness ==
    /\ entry = "emailService" /\ pc = "done" /\ request.method = "POST"
    /\ request.ContentType = <<"text/plain">>
    /\ env.ALLOWED_ORIGINS = <<"https://example.com">>
    /\ request.Origin = "https://other.com"
    /\ response.status = 403

\* The Azure client of the email service worker can be constructed.
ClientConfigured ==
    \/ env.AZURE_COMMUNICATION_CONNECTION_STRING = "set"
    \/ /\ env.AZURE_COMMUNICATION_ENDPOINT = "set"
       /\ env.AZURE_CLIENT_ID = "set"
       /\ env.AZURE_CLIENT_SECRET = "set"
       /\ env.AZURE_TENANT_ID = "set"

\* The first badly formed `to` address of a payload, in list order.
FirstOffending(b) ==
    LET bad == {i \in 1..Len(b.to.value) : b.to.value[i] \notin WellFormed}
    IN  b.to.value[CHOOSE i \in bad : \A j \in bad : i <= j]

\* The error of the earliest rule a payload breaks.
EarliestRuleError(b) ==
    IF NoRecipient(b) THEN "Recipient email address is required"
    ELSE IF ~b.subject THEN "Email subject is required"
    ELSE IF ~b.htmlContent /\ ~b.textContent
    THEN "Either HTML content or text content is required"
    ELSE "Invalid email format: " \o FirstOffending(b)

\* C26: field validation reports exactly the first failing rule in the
\* order recipient, subject, content, address syntax of the `to` entries in
\* list order; a syntax error names the first offending address.
C26_FirstFailingRule ==
    (/\ entry = "emailService" /\ Parsed /\ ClientConfigured
     /\ InvalidPayload(body))
        => /\ HasField("error", EarliestRuleError(body))
           /\ Cardinality({f \in response.body.fields : f[1] = "error"}) = 1

\* C26 witness: two badly formed `to` addresses in an otherwise complete
\* payload: the error names the first of them.
C26_Witness ==
    /\ entry = "emailService" /\ Parsed /\ ClientConfigured
    /\ body.to = Array(<<"a@b", "a b@c.d">>)
    /\ body.subject /\ body.textContent
    /\ HasField("error", "Invalid email format: a@b")

\* C27: every message handed to the email collaborator has a non-empty `to`
\* list, a subject and an html or a text body; a `to` given as one string is
\* sent as the one-element list of that string.
C27_SentMessageComplete ==
    (entry = "emailService" /\ calls # <<>>)
        => /\ Len(calls[1].to) >= 1
           /\ calls[1].subject
           /\ calls[1].html \/ calls[1].plainText
           /\ body.to.kind = "string" => calls[1].to = <<body.to.value[1]>>
           /\ body.to.kind = "array" => calls[1].to = body.to.value

\* C27 witness: the single string a@b.c sent as a list of one address.
C27_Witness ==
    /\ entry = "emailService" /\ Len(calls) = 1
    /\ body.to = OneString("a@b.c")
    /\ calls[1].to = <<"a@b.c">>
    /\ calls[1].subject /\ calls[1].html /\ ~calls[1].plainText

\* C28: handling one request calls the external collaborator at most once:
\* a failed call is not repeated, and a request that is rejected before the
\* call (any 4xx answer, or an answer without a collaborator outcome) makes
\* no call.
C28_AtMostOneCall ==
    /\ Len(calls) <= 1
    /\ outcome # "none" => (pc = "done" /\ Len(calls) = 1)
    /\ (pc = "done" /\ outcome = "none") => calls = <<>>
    /\ response.status \in 400..499 => calls = <<>>

\* C28 witness: the one call of a notification request threw and the
\* request was answered 500.
C28_Witness ==
    /\ handler = "notifications" /\ pc = "done" /\ outcome = "threw"
    /\ Len(calls) = 1 /\ response.status = 500

\* What a request gets when the worker handles it alone: the handler's steps
\* in sequence, for the request, its parsed body b and the outcome o of its
\* collaborator call.
AloneService(req, b, o) ==
    IF ServiceEnter(req, env).pc = "done"
    THEN ServiceEnter(req, env).response
    ELSE IF ServiceResume(b, env).pc = "done"
    THEN ServiceResume(b, env).response
    ELSE IF o = "returned" THEN ServiceSent
    ELSE ServiceFailed("error.message")

AloneRouter(req, b, o) ==
    IF validateApiKey(req, env).response # NoResponse
    THEN validateApiKey(req, env).response
    ELSE IF req.path \in EmailPaths
    THEN IF EmailEnter(req).pc = "done" THEN EmailEnter(req).response
         ELSE IF EmailResume(b, env).pc = "done"
         THEN EmailResume(b, env).response
         ELSE IF o = "returned" THEN EmailSent
         ELSE EmailFailed
    ELSE IF req.path \in HealthPaths THEN HealthResponse
    ELSE NotFound(req.path)

Alone(req, b, o) ==
    IF entry = "emailService" THEN AloneService(req, b, o)
    ELSE AloneRouter(req, b, o)

\* C29: requests share no mutable state: however two requests to one worker
\* are interleaved, each one's response is the one it gets when handled
\* alone with the same configuration, body and collaborator outcome; two
\* submissions of the same request get the same response.
C29_NoSharedState ==
    peer.pc # "absent"
        => /\ pc = "done" => response = Alone(request, body, outcome)
           /\ peer.pc = "done" =>
                  peer.response =
                      Alone(peer.request, peer.body, peer.outcome)
           /\ (/\ pc = "done" /\ peer.pc = "done"
               /\ request = peer.request /\ body = peer.body
               /\ outcome = peer.outcome)
                  => response = peer.response

\* C29 witness: a request was rejected for its payload while another
\* request to the same worker, started before it, was awaiting the
\* collaborator.
C29_Witness ==
    /\ entry = "emailService"
    /\ peer.pc = "serviceSending" /\ Len(peer.calls) = 1
    /\ pc = "done" /\ body.read /\ body.parses
    /\ body.to = Array(<<"a@b.c", "a@b">>)
    /\ response.status = 500
    /\ HasField("error", "Invalid email format: a@b")

\* C30: every request eventually has a response, a request that has one
\* takes no further step, and the response is never replaced: parse,
\* construction, validation and collaborator failures all end in a response.
C30_EventuallyOneResponse ==
    /\ <>(pc = "done" /\ response.status # 0)
    /\ [][pc # "done" /\ (response # NoResponse => response' = response)]_vars

\* C30 witness: the Azure client could not be constructed and the request
\* was answered 500.
C30_Witness ==
    /\ entry = "emailService" /\ pc = "done" /\ body.read /\ body.parses
    /\ ~ClientConfigured
    /\ outcome = "none" /\ response.status = 500

====
